---- MODULE Spec2Model ----
(***************************************************************************)
(* The Pong engine of src/src/pong-game.js and the match loop that drives  *)
(* it (pongLoop / updatePong).                                             *)
(* With it, the coordinates and the tips array of src/src/tip-tracker.js. *)
(*                                                                         *)
(* Numbers are fixed point, so every product and sum of the source is      *)
(* exact except the trigonometry and the real divisions:                   *)
(*   lengths and positions   1/1000 pixel                                  *)
(*   speeds and velocities   1/100 pixel per frame                         *)
(*   frame time scale        1/10                                          *)
(*   angles                  1/1000 radian, Sin/Cos results in 1/1000      *)
(*   countdown, elapsed time 1/1000 second                                 *)
(*   Math.random() draws     1/1000, a draw r stands for r/1000 in [0,1)   *)
(* so position + velocity * frameScale needs no rescaling.                 *)
(* The rounding of a double's sums is modelled by Fl, where a result      *)
(* depends on it.                                                          *)
(***************************************************************************)
EXTENDS Integers, Sequences, FiniteSets, TLC

\* The match state (phase, countdown, player, ai, ball, score), the event of
\* the last frame (last), and the call and result of a function applied on
\* its own (args, ret).  The input snapshot {up, down} is the host's: it is
\* passed to each advance call, which does not write it.
VARIABLES phase, countdown, player, ai, ball, score, last, args, ret, tips

vars == <<phase, countdown, player, ai, ball, score, last, args, ret, tips>>

----------------------------------------------------------------------------
(* PONG_CONFIG *)

width == 500000

height == 300000

paddleWidth == 12000

paddleHeight == 70000

paddleSpeed == 600

paddleMargin == 15000

ballSize == 10000

ballSpeedInitial == 400

ballSpeedIncrement == 15

ballSpeedMax == 800

pointsToWin == 5

countdownSeconds == 3000

----------------------------------------------------------------------------
(* Math *)

Abs(n) == IF n < 0 THEN -n ELSE n

Sign(n) == IF n > 0 THEN 1 ELSE IF n < 0 THEN -1 ELSE 0

Min(a, b) == IF a <= b THEN a ELSE b

Max(a, b) == IF a >= b THEN a ELSE b

\* Division of the reals rounded toward zero (TLA+'s \div rounds down).
Quot(a, b) == Sign(a) * Sign(b) * (Abs(a) \div Abs(b))

\* The source's numbers are IEEE doubles: a sum or difference is rounded to
\* the nearest number with a 53-bit significand, ties to even.  Fl rounds the
\* same way to a significand of SignificandBits bits, on the model's units:
\* results below 2^SignificandBits units are exact, as every sum of a match
\* is, and larger ones lose their low bits as a double's do at its own scale.
SignificandBits == 20

RECURSIVE Ulp(_)
Ulp(n) == IF n < 2 ^ SignificandBits THEN 1 ELSE 2 * Ulp(n \div 2)

Fl(x) ==
    LET u  == Ulp(Abs(x))
        q  == Abs(x) \div u
        r  == Abs(x) % u
        up == 2 * r > u \/ (2 * r = u /\ q % 2 = 1)
    IN  Sign(x) * (IF up THEN q + 1 ELSE q) * u

\* Math.cos on 1/1000 radian, result in 1/1000: the Taylor polynomial to the
\* sixth power, within 2/1000 of the cosine for |a| <= 1000.
Cos(a) ==
    LET a2 == (a * a) \div 1000
        a4 == (a2 * a2) \div 1000
        a6 == (a4 * a2) \div 1000
    IN  1000 - (a2 \div 2) + (a4 \div 24) - (a6 \div 720)

\* Math.sin on 1/1000 radian, result in 1/1000: the Taylor polynomial to the
\* seventh power, odd in a.
Sin(a) ==
    LET m  == Abs(a)
        a2 == (m * m) \div 1000
        a3 == (a2 * m) \div 1000
        a5 == (a3 * a2) \div 1000
        a7 == (a5 * a2) \div 1000
    IN  Sign(a) * (m - (a3 \div 6) + (a5 \div 120) - (a7 \div 5040))

----------------------------------------------------------------------------
(* src/src/pong-game.js *)

\* createInitialState with the countdown skipped: the match starts in play.
createInitialStatePlaying ==
    [ phase     |-> "playing",
      countdown |-> countdownSeconds,
      player    |-> [y |-> height \div 2 - paddleHeight \div 2],
      ai        |-> [y |-> height \div 2 - paddleHeight \div 2,
                     targetY |-> height \div 2],
      ball      |-> [x |-> width \div 2 - ballSize \div 2,
                     y |-> height \div 2 - ballSize \div 2,
                     vx |-> 0, vy |-> 0,
                     speed |-> ballSpeedInitial],
      score     |-> [player |-> 0, ai |-> 0],
      input     |-> [up |-> FALSE, down |-> FALSE] ]

\* createInitialState that centres the ball as a paddle, by paddleHeight.
createInitialStateBallAsPaddle ==
    [ phase     |-> "countdown",
      countdown |-> countdownSeconds,
      player    |-> [y |-> height \div 2 - paddleHeight \div 2],
      ai        |-> [y |-> height \div 2 - paddleHeight \div 2,
                     targetY |-> height \div 2],
      ball      |-> [x |-> width \div 2 - ballSize \div 2,
                     y |-> height \div 2 - paddleHeight \div 2,
                     vx |-> 0, vy |-> 0,
                     speed |-> ballSpeedInitial],
      score     |-> [player |-> 0, ai |-> 0],
      input     |-> [up |-> FALSE, down |-> FALSE] ]

createInitialState ==
    [ phase     |-> "countdown",
      countdown |-> countdownSeconds,
      player    |-> [y |-> height \div 2 - paddleHeight \div 2],
      ai        |-> [y |-> height \div 2 - paddleHeight \div 2,
                     targetY |-> height \div 2],
      ball      |-> [x |-> width \div 2 - ballSize \div 2,
                     y |-> height \div 2 - ballSize \div 2,
                     vx |-> 0, vy |-> 0,
                     speed |-> ballSpeedInitial],
      score     |-> [player |-> 0, ai |-> 0],
      input     |-> [up |-> FALSE, down |-> FALSE] ]

\* clampPaddleY without the clamp.
clampPaddleYNone(y) == y

clampPaddleY(y) == Max(0, Min(height - paddleHeight, y))

\* newY -= step when up, then newY += step when down, each a rounded double
\* operation, then the clamp.
movePlayerPaddle(currentY, in, frameSpeed) ==
    LET step == Fl(paddleSpeed * frameSpeed)
        y1   == IF in.up THEN Fl(currentY - step) ELSE currentY
        y2   == IF in.down THEN Fl(y1 + step) ELSE y1
    IN  clampPaddleY(y2)

\* A pass of the loop that mirrors at the upper wall only.
FoldOnceUpperWallOnly(y) == IF y < 0 THEN -y ELSE y

\* One pass that mirrors at the court height instead of height - ballSize.
FoldOnceAtCourtHeight(y) ==
    LET y1 == IF y < 0 THEN -y ELSE y
    IN  IF y1 > height - ballSize THEN 2 * height - y1 ELSE y1

\* One pass of the while loop of predictBallY: both ifs, in order.
FoldOnce(y) ==
    LET y1 == IF y < 0 THEN -y ELSE y
    IN  IF y1 > height - ballSize THEN 2 * (height - ballSize) - y1 ELSE y1

maxIterations == 10

RECURSIVE FoldLoop(_, _)
FoldLoop(y, iterations) ==
    IF (y < 0 \/ y > height - ballSize) /\ iterations < maxIterations
    THEN FoldLoop(FoldOnce(y), iterations + 1)
    ELSE y

\* The value of iterations when the while loop of predictBallY ends.
RECURSIVE FoldIterations(_, _)
FoldIterations(y, iterations) ==
    IF (y < 0 \/ y > height - ballSize) /\ iterations < maxIterations
    THEN FoldIterations(FoldOnce(y), iterations + 1)
    ELSE iterations

\* predictBallY without the return for a ball moving away.
predictBallYNoAwayCheck(b, targetX) ==
    IF b.vx = 0 THEN b.y
    ELSE FoldLoop(b.y + Quot(b.vy * (targetX - b.x), b.vx), 0)

predictBallY(b, targetX) ==
    IF b.vx = 0 THEN b.y
    ELSE IF Sign(targetX - b.x) * Sign(b.vx) < 0 THEN b.y
    ELSE FoldLoop(b.y + Quot(b.vy * (targetX - b.x), b.vx), 0)

\* calculateAITarget with twice the jitter, (Math.random() - 0.5) * 60.
calculateAITargetWideJitter(b, currentAiY, r) ==
    LET aiX == width - paddleMargin - paddleWidth
    IN  IF b.vx > 0
        THEN predictBallY(b, aiX) - paddleHeight \div 2 + (r - 500) * 60
        ELSE height \div 2 - paddleHeight \div 2

\* r is the Math.random() draw of the jitter.
calculateAITarget(b, currentAiY, r) ==
    LET aiX == width - paddleMargin - paddleWidth
    IN  IF b.vx > 0
        THEN predictBallY(b, aiX) - paddleHeight \div 2 + (r - 500) * 30
        ELSE height \div 2 - paddleHeight \div 2

\* moveAIPaddle at the player's speed.
moveAIPaddleFullSpeed(currentY, targetY, frameSpeed) ==
    LET diff     == targetY - currentY
        movement == Sign(diff) * Min(Abs(diff), paddleSpeed * frameSpeed)
    IN  IF Abs(diff) <= 2000 THEN currentY
        ELSE clampPaddleY(currentY + movement)

moveAIPaddle(currentY, targetY, frameSpeed) ==
    LET aiSpeed  == (paddleSpeed * 9) \div 10
        diff     == targetY - currentY
        movement == Sign(diff) * Min(Abs(diff), aiSpeed * frameSpeed)
    IN  IF Abs(diff) <= 2000 THEN currentY
        ELSE clampPaddleY(currentY + movement)

\* checkWallCollision that reverses the velocity but leaves the ball where it is.
checkWallCollisionNoClamp(b) ==
    IF b.y <= 0
    THEN [collided |-> TRUE, newY |-> b.y, newVy |-> Abs(b.vy)]
    ELSE IF b.y >= height - ballSize
    THEN [collided |-> TRUE, newY |-> b.y, newVy |-> -Abs(b.vy)]
    ELSE [collided |-> FALSE, newY |-> b.y, newVy |-> b.vy]

\* checkWallCollision with < and > for <= and >=: a ball exactly on a wall
\* is not turned back.
checkWallCollisionStrict(b) ==
    IF b.y < 0
    THEN [collided |-> TRUE, newY |-> 0, newVy |-> Abs(b.vy)]
    ELSE IF b.y > height - ballSize
    THEN [collided |-> TRUE, newY |-> height - ballSize, newVy |-> -Abs(b.vy)]
    ELSE [collided |-> FALSE, newY |-> b.y, newVy |-> b.vy]

checkWallCollision(b) ==
    IF b.y <= 0
    THEN [collided |-> TRUE, newY |-> 0, newVy |-> Abs(b.vy)]
    ELSE IF b.y >= height - ballSize
    THEN [collided |-> TRUE, newY |-> height - ballSize, newVy |-> -Abs(b.vy)]
    ELSE [collided |-> FALSE, newY |-> b.y, newVy |-> b.vy]

\* inXRange without the direction check.
inXRangeAnyDirection(b, paddleX, isLeftPaddle) ==
    IF isLeftPaddle
    THEN b.x <= paddleX + paddleWidth /\ b.x >= paddleX
    ELSE b.x >= paddleX - ballSize /\ b.x <= paddleX

\* const inXRange: the ball is in the paddle's x range and moving toward it.
inXRange(b, paddleX, isLeftPaddle) ==
    IF isLeftPaddle
    THEN b.x <= paddleX + paddleWidth /\ b.x >= paddleX /\ b.vx < 0
    ELSE b.x >= paddleX - ballSize /\ b.x <= paddleX /\ b.vx > 0

\* newSpeed with the increment subtracted.
newSpeedDecrement(b) == Min(ballSpeedMax, b.speed - ballSpeedIncrement)

\* newSpeed without the cap.
newSpeedUncapped(b) == b.speed + ballSpeedIncrement

\* const newSpeed of a hit.
newSpeed(b) == Min(ballSpeedMax, b.speed + ballSpeedIncrement)

\* const angle of a hit, hitPos * 0.8 with
\* hitPos = (ballCenter - paddleCenter) / (paddleHeight / 2).
hitAngle(ballCenter, paddleCenter) ==
    Quot((ballCenter - paddleCenter) * 8, (paddleHeight \div 2) \div 100)

\* newX that snaps the ball to the paddle's own x, inside its span.
newXInnerEdge(paddleX, isLeftPaddle) == paddleX

\* const newX of a hit: the paddle's outer edge.
newX(paddleX, isLeftPaddle) ==
    IF isLeftPaddle THEN paddleX + paddleWidth ELSE paddleX - ballSize

\* The result {hit: false} carries no newBall; here newBall is then the ball
\* passed in, which no caller reads.
checkPaddleCollision(b, paddleX, paddleY, isLeftPaddle) ==
    LET ballCenter   == b.y + ballSize \div 2
        paddleCenter == paddleY + paddleHeight \div 2
        angle    == hitAngle(ballCenter, paddleCenter)
        newVx    == IF isLeftPaddle
                    THEN Quot(newSpeed(b) * Cos(angle), 1000)
                    ELSE -Quot(newSpeed(b) * Cos(angle), 1000)
        newVy    == Quot(newSpeed(b) * Sin(angle), 1000)
    IN  IF ~inXRange(b, paddleX, isLeftPaddle) THEN [hit |-> FALSE, newBall |-> b]
        ELSE IF ballCenter < paddleY \/ ballCenter > paddleY + paddleHeight
        THEN [hit |-> FALSE, newBall |-> b]
        ELSE [hit |-> TRUE,
              newBall |-> [b EXCEPT !.x = newX(paddleX, isLeftPaddle),
                                    !.vx = newVx,
                                    !.vy = newVy, !.speed = newSpeed(b)]]

\* checkScore with <= and >= for < and >: a ball exactly on an edge scores.
checkScoreInclusive(b) ==
    IF b.x <= 0 THEN "ai"
    ELSE IF b.x >= width THEN "player"
    ELSE "null"

checkScore(b) ==
    IF b.x < 0 THEN "ai"
    ELSE IF b.x > width THEN "player"
    ELSE "null"

\* checkWinner that looks at the AI's score first.
checkWinnerAIFirst(s) ==
    IF s.ai >= pointsToWin THEN "ai"
    ELSE IF s.player >= pointsToWin THEN "player"
    ELSE "null"

\* checkWinner that never names the AI.
checkWinnerPlayerOnly(s) ==
    IF s.player >= pointsToWin THEN "player"
    ELSE "null"

\* checkWinner with > for >=.
checkWinnerStrict(s) ==
    IF s.player > pointsToWin THEN "player"
    ELSE IF s.ai > pointsToWin THEN "ai"
    ELSE "null"

checkWinner(s) ==
    IF s.player >= pointsToWin THEN "player"
    ELSE IF s.ai >= pointsToWin THEN "ai"
    ELSE "null"

\* generateServeVelocity whose direction is the sign of the draw about 0.5.
generateServeVelocitySignDirection(seed, r1, r2) ==
    LET d1        == IF seed # -1 THEN seed ELSE r1
        d2        == IF seed # -1 THEN seed ELSE r2
        angle     == (d1 * 8) \div 10 - 400
        direction == Sign(d2 - 500)
    IN  [vx |-> direction * Quot(ballSpeedInitial * Cos(angle), 1000),
         vy |-> Quot(ballSpeedInitial * Sin(angle), 1000)]

\* generateServeVelocity with sin and cos exchanged.
generateServeVelocitySwapped(seed, r1, r2) ==
    LET d1        == IF seed # -1 THEN seed ELSE r1
        d2        == IF seed # -1 THEN seed ELSE r2
        angle     == (d1 * 8) \div 10 - 400
        direction == IF d2 > 500 THEN 1 ELSE -1
    IN  [vx |-> direction * Quot(ballSpeedInitial * Sin(angle), 1000),
         vy |-> Quot(ballSpeedInitial * Cos(angle), 1000)]

\* seed = -1 stands for null: then random is Math.random and r1, r2 are its
\* two draws; otherwise both calls of random() return seed.
generateServeVelocity(seed, r1, r2) ==
    LET d1        == IF seed # -1 THEN seed ELSE r1
        d2        == IF seed # -1 THEN seed ELSE r2
        angle     == (d1 * 8) \div 10 - 400
        direction == IF d2 > 500 THEN 1 ELSE -1
    IN  [vx |-> direction * Quot(ballSpeedInitial * Cos(angle), 1000),
         vy |-> Quot(ballSpeedInitial * Sin(angle), 1000)]

----------------------------------------------------------------------------
(* src/src/tip-tracker.js *)

\* A string is the sequence of its characters; null is Null, and a string
\* that may be null is carried in the field coord of a record.
Null == [null |-> TRUE]

(* GRID_CONFIG *)
tip10rowLabels == <<"A", "B", "C", "D", "E", "F", "G", "H">>

tip10colLabels ==
    << <<"1">>, <<"2">>, <<"3">>, <<"4">>, <<"5">>, <<"6">>, <<"7">>,
       <<"8">>, <<"9">>, <<"1", "0">>, <<"1", "1">>, <<"1", "2">> >>

tip100colLabels ==
    <<"A", "B", "C", "D", "E", "F", "G", "H", "I", "J", "K", "L">>

tip100rowLabels ==
    << <<"1">>, <<"2">>, <<"3">>, <<"4">>, <<"5">>, <<"6">>, <<"7">>,
       <<"8">> >>

rows == 8

cols == 12

\* String.prototype.toUpperCase on one character.
LowerCaseLetters ==
    <<"a", "b", "c", "d", "e", "f", "g", "h", "i", "j", "k", "l", "m",
      "n", "o", "p", "q", "r", "s", "t", "u", "v", "w", "x", "y", "z">>

UpperCaseLetters ==
    <<"A", "B", "C", "D", "E", "F", "G", "H", "I", "J", "K", "L", "M",
      "N", "O", "P", "Q", "R", "S", "T", "U", "V", "W", "X", "Y", "Z">>

toUpperCase(ch) ==
    IF \E i \in 1..26 : LowerCaseLetters[i] = ch
    THEN UpperCaseLetters[CHOOSE i \in 1..26 : LowerCaseLetters[i] = ch]
    ELSE ch

\* Array.prototype.indexOf: the 0-based index of the first equal element,
\* -1 when there is none.
indexOf(labels, x) ==
    IF \E i \in 1..Len(labels) : labels[i] = x
    THEN (CHOOSE i \in 1..Len(labels) :
              /\ labels[i] = x
              /\ \A j \in 1..(i - 1) : labels[j] # x) - 1
    ELSE -1

\* The empty string is falsy, so !coord is covered by the length test.
parseCoordToGridPosition(coord, tipSize) ==
    IF Len(coord) < 2 THEN Null
    ELSE LET letter == toUpperCase(coord[1])
             number == Tail(coord)
         IN  IF tipSize = 10
             THEN LET rowIndex == indexOf(tip10rowLabels, letter)
                      colIndex == indexOf(tip10colLabels, number)
                  IN  IF rowIndex = -1 \/ colIndex = -1 THEN Null
                      ELSE [row |-> rowIndex, col |-> colIndex]
             ELSE IF tipSize = 100
             THEN LET colIndex == indexOf(tip100colLabels, letter)
                      rowIndex == indexOf(tip100rowLabels, number)
                  IN  IF rowIndex = -1 \/ colIndex = -1 THEN Null
                      ELSE [row |-> rowIndex, col |-> colIndex]
             ELSE Null

\* A variant that labels the 100 uL box as the 10 uL box is labelled.
gridPositionToCoordSameConvention(row, col, tipSize) ==
    IF row < 0 \/ row >= rows \/ col < 0 \/ col >= cols THEN Null
    ELSE IF tipSize = 10 \/ tipSize = 100
    THEN [coord |-> <<tip10rowLabels[row + 1]>> \o tip10colLabels[col + 1]]
    ELSE Null

gridPositionToCoord(row, col, tipSize) ==
    IF row < 0 \/ row >= rows \/ col < 0 \/ col >= cols THEN Null
    ELSE IF tipSize = 10
    THEN [coord |-> <<tip10rowLabels[row + 1]>> \o tip10colLabels[col + 1]]
    ELSE IF tipSize = 100
    THEN [coord |-> <<tip100colLabels[col + 1]>> \o tip100rowLabels[row + 1]]
    ELSE Null

\* A tip is a record of its coord, tipSize and ingredient; an error message
\* is carried in the field message of a record, as it may be null.
findExistingTip(ts, coord, tipSize) ==
    IF \E i \in 1..Len(ts) : ts[i].coord = coord /\ ts[i].tipSize = tipSize
    THEN ts[CHOOSE i \in 1..Len(ts) :
                /\ ts[i].coord = coord /\ ts[i].tipSize = tipSize
                /\ \A j \in 1..(i - 1) :
                       ~(ts[j].coord = coord /\ ts[j].tipSize = tipSize)]
    ELSE Null

\* tips.filter(t => !(t.coord === coord && t.tipSize === tipSize))
deleteTip(ts, coord, tipSize) ==
    LET keep(t) == ~(t.coord = coord /\ t.tipSize = tipSize)
    IN  SelectSeq(ts, keep)

\* A variant that appends the new tip without removing the one it replaces.
addTipKeepsExisting(ts, newTip, replace) ==
    LET existing == findExistingTip(ts, newTip.coord, newTip.tipSize)
    IN  IF existing # Null /\ ~replace
        THEN [tips |-> ts, replaced |-> Null,
              error |-> [message |-> "Coordinate already occupied"]]
        ELSE [tips |-> Append(ts, newTip), replaced |-> existing,
              error |-> Null]

addTip(ts, newTip, replace) ==
    LET existing == findExistingTip(ts, newTip.coord, newTip.tipSize)
    IN  IF existing # Null /\ ~replace
        THEN [tips |-> ts, replaced |-> Null,
              error |-> [message |-> "Coordinate already occupied"]]
        ELSE LET newTips ==
                     IF existing # Null
                     THEN deleteTip(ts, newTip.coord, newTip.tipSize)
                     ELSE ts
             IN  [tips |-> Append(newTips, newTip), replaced |-> existing,
                  error |-> Null]

----------------------------------------------------------------------------
(* The match loop: advance(state, elapsedTime, input), one call per frame.  *)

\* Elapsed times of a countdown frame, 1/1000 second.
ElapsedTimes == {0, 1500}

\* The frame time scales of a playing frame, 1/10: two long frames (a
\* throttled or resumed tab), of 56 and of 120 nominal frames.  The first
\* carries a serve from the centre into a paddle's span in one frame or past
\* it in two, the second carries the ball across the court, so that rallies,
\* wall bounces, misses and wins all occur within a few frames.
LongFrame == 560

ResumeFrame == 1200

FrameScales == {LongFrame, ResumeFrame}

Inputs == [up : BOOLEAN, down : BOOLEAN]

\* Math.random() draws, 1/1000: both ends of [0, 1) and the middle.
Draws == {0, 500, 999}

NoEvent == [op |-> "init", hit |-> "null", wall |-> FALSE, scored |-> "null"]

\* serveBall(): the Serve Generator's output becomes the ball's velocity.
serveBall(b, r1, r2) ==
    LET v == generateServeVelocity(-1, r1, r2)
    IN  [b EXCEPT !.vx = v.vx, !.vy = v.vy]

\* The Math.random() draws a call makes: the draws of Draws when the call
\* reads the generator, one (unread) draw when it does not.
DrawsIf(reads) == IF reads THEN Draws ELSE {0}

\* COUNTDOWN frame: decrement the countdown; at <= 0 start play and serve.
\* Input is ignored.
AdvanceCountdown(elapsed) ==
    /\ phase = "countdown"
    /\ LET remaining == countdown - elapsed
       IN  /\ countdown' = remaining
           /\ IF remaining <= 0
              THEN /\ phase' = "playing"
                   /\ \E r1 \in Draws, r2 \in Draws :
                         ball' = serveBall([ball EXCEPT !.speed = ballSpeedInitial], r1, r2)
                   /\ last' = [NoEvent EXCEPT !.op = "serve"]
              ELSE /\ phase' = phase
                   /\ ball' = ball
                   /\ last' = [NoEvent EXCEPT !.op = "countdown"]
    /\ UNCHANGED <<player, ai, score, args, ret, tips>>

\* Integration: ball.x += vx * frameScale; ball.y += vy * frameScale.
moveBall(b, frameSpeed) ==
    [b EXCEPT !.x = b.x + b.vx * frameSpeed, !.y = b.y + b.vy * frameSpeed]

\* Wall resolution of the moved ball.
bounceBall(b) ==
    LET w == checkWallCollision(b)
    IN  [b EXCEPT !.y = w.newY, !.vy = w.newVy]

\* The ball of a fresh state: centred, zero velocity.
resetBall(b) ==
    [b EXCEPT !.x = createInitialState.ball.x, !.y = createInitialState.ball.y,
              !.vx = 0, !.vy = 0]

\* The paddles' and the ball's part of updatePong: both paddles move, the
\* ball is integrated, then resolved against the walls, the player's paddle
\* and the AI's paddle (at most one hit, the player's first), then scored.
\* rj is the draw of the AI's jitter.
stepPong(in, frameSpeed, rj) ==
    LET playerY == movePlayerPaddle(player.y, in, frameSpeed)
        targetY == calculateAITarget(ball, ai.y, rj)
        aiY     == moveAIPaddle(ai.y, targetY, frameSpeed)
        moved   == moveBall(ball, frameSpeed)
        walled  == bounceBall(moved)
        hitP    == checkPaddleCollision(walled, paddleMargin, playerY, TRUE)
        hitA    == IF hitP.hit THEN [hit |-> FALSE, newBall |-> walled]
                   ELSE checkPaddleCollision(walled,
                            width - paddleMargin - paddleWidth, aiY, FALSE)
        struck  == IF hitP.hit THEN hitP.newBall
                   ELSE IF hitA.hit THEN hitA.newBall
                   ELSE walled
    IN  [playerY |-> playerY, targetY |-> targetY, aiY |-> aiY, ball |-> struck,
         hit  |-> IF hitP.hit THEN "player" ELSE IF hitA.hit THEN "ai" ELSE "null",
         wall |-> checkWallCollision(moved).collided,
         scored |-> checkScore(struck)]

\* PLAYING frame, updatePong: the step above, then the score, the win check
\* and, if the match goes on, the next serve.
AdvancePlaying(in, frameSpeed) ==
    /\ phase = "playing"
    /\ \E rj \in DrawsIf(ball.vx > 0) :
       \E step \in {stepPong(in, frameSpeed, rj)} :
       \E newScore \in {IF step.scored = "null" THEN score
                        ELSE [score EXCEPT ![step.scored] = @ + 1]} :
       \E winner \in {IF step.scored = "null" THEN "null"
                      ELSE checkWinner(newScore)} :
       \E reserve \in {step.scored # "null" /\ winner = "null"} :
           /\ player' = [player EXCEPT !.y = step.playerY]
           /\ ai' = [ai EXCEPT !.y = step.aiY, !.targetY = step.targetY]
           /\ score' = newScore
           /\ phase' = IF winner # "null" THEN "finished" ELSE "playing"
           /\ \E r1 \in DrawsIf(reserve), r2 \in DrawsIf(reserve) :
                 ball' = IF reserve THEN serveBall(resetBall(step.ball), r1, r2)
                         ELSE step.ball
           /\ last' = [op |-> "playing", hit |-> step.hit, wall |-> step.wall,
                       scored |-> step.scored]
    /\ UNCHANGED <<countdown, args, ret, tips>>

\* A FINISHED frame that serves again.
AdvanceFinishedServes ==
    /\ phase = "finished"
    /\ \E r1 \in Draws, r2 \in Draws : ball' = serveBall(resetBall(ball), r1, r2)
    /\ last' = [NoEvent EXCEPT !.op = "finished"]
    /\ UNCHANGED <<phase, countdown, player, ai, score, args, ret, tips>>

\* FINISHED frame: a no-op.
AdvanceFinished ==
    /\ phase = "finished"
    /\ last' = [NoEvent EXCEPT !.op = "finished"]
    /\ UNCHANGED <<phase, countdown, player, ai, ball, score, args, ret, tips>>

Init ==
    /\ phase = createInitialState.phase
    /\ countdown = createInitialState.countdown
    /\ player = createInitialState.player
    /\ ai = createInitialState.ai
    /\ ball = createInitialState.ball
    /\ score = createInitialState.score
    /\ last = NoEvent
    /\ args = <<>>
    /\ ret = <<>>
    /\ tips = <<>>

Next ==
    \/ \E e \in ElapsedTimes : AdvanceCountdown(e)
    \/ \E in \in Inputs, f \in FrameScales : AdvancePlaying(in, f)
    \/ AdvanceFinished

Spec == Init /\ [][Next]_vars

\* A playing frame has been run: every step of Next out of a playing state
\* is one, and one is possible in every playing state.
PlayingFrame == phase = "playing" /\ last'.op = "playing"

\* The host calls advance once per animation frame for as long as the match
\* is shown, so a playing frame is not postponed forever: weak fairness of
\* the playing frame, with its enabling condition written as the phase.
FairSpec ==
    Spec /\ ([]<>(phase # "playing") \/ []<><<PlayingFrame>>_vars)

----------------------------------------------------------------------------
(* checkPaddleCollision applied on its own.                                 *)

\* The ball's position at the court's centre.
centerX == width \div 2 - ballSize \div 2

centerY == height \div 2 - ballSize \div 2

playerPaddleX == paddleMargin

aiPaddleX == width - paddleMargin - paddleWidth

\* Ball x positions: each end of each paddle's span, one step outside it,
\* and inside it.
PaddleCallXs ==
    UNION { {px - ballSize - 1, px - ballSize, px - 5000, px - 1, px, px + 1,
             px + 5000, px + paddleWidth, px + paddleWidth + 1}
            : px \in {playerPaddleX, aiPaddleX} }

\* Ball y positions against a paddle at paddleY: the ball's centre one step
\* above the paddle, on its top edge, inside, on its bottom edge, one step
\* below.
PaddleCallYs(paddleY) ==
    { paddleY - ballSize \div 2 - 1, paddleY - ballSize \div 2,
      paddleY + 10000, paddleY + 50000,
      paddleY + paddleHeight - ballSize \div 2,
      paddleY + paddleHeight - ballSize \div 2 + 1 }

PaddleCalls ==
    UNION { { [ball |-> [x |-> x, y |-> y, vx |-> vx, vy |-> 0, speed |-> sp],
               paddleX |-> px, paddleY |-> py, isLeftPaddle |-> left]
              : x \in PaddleCallXs, vx \in {-500, 0, 500},
                sp \in {ballSpeedInitial, ballSpeedMax - ballSpeedIncrement - 1,
                        ballSpeedMax - ballSpeedIncrement,
                        ballSpeedMax - ballSpeedIncrement + 1, ballSpeedMax},
                px \in {playerPaddleX, aiPaddleX},
                y \in PaddleCallYs(py), left \in BOOLEAN }
            : py \in {0, 100000} }

InitPaddle ==
    /\ phase = createInitialState.phase
    /\ countdown = createInitialState.countdown
    /\ player = createInitialState.player
    /\ ai = createInitialState.ai
    /\ ball = createInitialState.ball
    /\ score = createInitialState.score
    /\ last = NoEvent
    /\ args \in PaddleCalls
    /\ ret = <<>>
    /\ tips = <<>>

CallCheckPaddleCollision ==
    /\ ret = <<>>
    /\ ret' = <<checkPaddleCollision(args.ball, args.paddleX, args.paddleY,
                                     args.isLeftPaddle)>>
    /\ UNCHANGED <<phase, countdown, player, ai, ball, score, last, args, tips>>

NextPaddle == CallCheckPaddleCollision

SpecPaddle == InitPaddle /\ [][NextPaddle]_vars

\* Frame scales of the frames that follow a hit.
TickFrames == {0, 10, LongFrame}

\* Calls of checkPaddleCollision on one ball: the first, and those of the
\* frames after a hit.
MaxTicks == 3

\* A frame after a hit: the ball is moved and resolved against the walls as
\* in updatePong, then checked against the same paddle again.
RecallCheckPaddleCollision(frameSpeed) ==
    /\ ret # <<>>
    /\ ret[1].hit
    /\ Len(ret) < MaxTicks
    /\ ret' = Append(ret,
                 checkPaddleCollision(
                     bounceBall(moveBall(ret[Len(ret)].newBall, frameSpeed)),
                     args.paddleX, args.paddleY, args.isLeftPaddle))
    /\ UNCHANGED <<phase, countdown, player, ai, ball, score, last, args, tips>>

NextPaddleTicks ==
    \/ CallCheckPaddleCollision
    \/ \E f \in TickFrames : RecallCheckPaddleCollision(f)

SpecPaddleTicks == InitPaddle /\ [][NextPaddleTicks]_vars

----------------------------------------------------------------------------
(* Calls of the other pure functions: Init draws one call's arguments, the  *)
(* function's action leaves what it returns in ret.                         *)

\* predictBallY: balls on a grid of positions and velocities, in and out of
\* the court, toward and away from three targets.
PredictGridCalls ==
    { [fn |-> "predictBallY",
       ball |-> [x |-> x, y |-> y, vx |-> vx, vy |-> vy, speed |-> ballSpeedInitial],
       targetX |-> tx]
      : x \in {100000, 245000, 473000},
        y \in {-5000, 0, 50000, 145000, height - ballSize, height},
        vx \in {-1000, -400, -1, 0, 1, 100, 400, 1000},
        vy \in {-800, -500, -5, 0, 5, 500, 800},
        tx \in {playerPaddleX + paddleWidth, 245000, aiPaddleX} }

\* predictBallY: a ball at 45 degrees, whose extrapolated y is y0 + targetX,
\* around the largest overshoot that maxIterations passes fold back.
PredictFarCalls ==
    { [fn |-> "predictBallY",
       ball |-> [x |-> 0, y |-> y, vx |-> 100, vy |-> vy, speed |-> ballSpeedInitial],
       targetX |-> tx]
      : y \in {0, height - ballSize},
        vy \in {-100, 100},
        tx \in { k * (height - ballSize) + d
                 : k \in {2, 3, 2 * maxIterations - 1, 2 * maxIterations,
                          2 * maxIterations + 1},
                   d \in {-1, 0, 1} } }

\* Positions of a paddle passed to a function: the bounds, between them, and
\* beyond each.
PaddleYs == {-10000, 0, 100000, 115000, height - paddleHeight,
             height - paddleHeight + 10000}

\* calculateAITarget: balls moving toward the AI, away from it and not at
\* all, short of and past its paddle; every draw of the jitter.
AITargetCalls ==
    { [fn |-> "calculateAITarget",
       ball |-> [x |-> x, y |-> y, vx |-> vx, vy |-> vy, speed |-> ballSpeedInitial],
       currentAiY |-> cy, r |-> r]
      : x \in {27000, 245000, aiPaddleX, width},
        y \in {0, 145000, height - ballSize},
        vx \in {-400, 0, 1, 400},
        vy \in {-500, 0, 500},
        cy \in PaddleYs, r \in Draws }

\* Frame scales passed to the paddle functions: none, half a frame, one
\* frame, a long frame.
MoveFrames == {0, 5, 10, LongFrame}

\* moveAIPaddle: targets at the dead-zone's edge, at one AI step of a frame
\* and of half a frame, one step of the model to each side of these, and far
\* away.
AIMoveCalls ==
    { [fn |-> "moveAIPaddle", currentY |-> cy, targetY |-> cy + d,
       frameSpeed |-> f]
      : cy \in PaddleYs,
        d \in {-300000, -5401, -5400, -2701, -2700, -2001, -2000, -1, 0, 1,
               2000, 2001, 2700, 2701, 5399, 5400, 5401, 300000},
        f \in MoveFrames }

\* clampPaddleY: the bounds, one step of the model to each side of them,
\* inside and far outside.
ClampCalls ==
    { [fn |-> "clampPaddleY", y |-> y]
      : y \in PaddleYs \cup {-300000, -1, 1, height - paddleHeight - 1,
                            height - paddleHeight + 1, 300000} }

\* movePlayerPaddle: every input, from positions in and out of the court,
\* over the frame scales of the AI's moves and a frame of 1000 frame times,
\* whose step is beyond the exact sums.
PlayerMoveCalls ==
    { [fn |-> "movePlayerPaddle", currentY |-> cy, in |-> in, frameSpeed |-> f]
      : cy \in PaddleYs \cup {3000, 100001, height - paddleHeight - 3000},
        in \in Inputs,
        f \in MoveFrames \cup {10000} }

\* checkWallCollision: the ball beyond, one step of the model beyond, on and
\* one step inside each wall, and in mid-court; moving up, down and level.
WallCalls ==
    { [fn |-> "checkWallCollision",
       ball |-> [x |-> centerX, y |-> y, vx |-> ballSpeedInitial, vy |-> vy,
                 speed |-> ballSpeedInitial]]
      : y \in {-5000, -1, 0, 1, centerY, height - ballSize - 1,
               height - ballSize, height - ballSize + 1, height},
        vy \in {-300, 0, 300} }

\* checkScore: the ball beyond, one step of the model beyond, on and one step
\* inside each edge, and in mid-court.
ScoreCalls ==
    { [fn |-> "checkScore",
       ball |-> [x |-> x, y |-> centerY, vx |-> vx, vy |-> 0,
                 speed |-> ballSpeedInitial]]
      : x \in {-5000, -1, 0, 1, width \div 2, width - 1, width, width + 1,
               width + 5000},
        vx \in {-ballSpeedInitial, ballSpeedInitial} }

\* checkWinner: every pair of scores up to one point past pointsToWin.
WinnerCalls ==
    { [fn |-> "checkWinner", score |-> [player |-> p, ai |-> a]]
      : p \in 0..(pointsToWin + 1), a \in 0..(pointsToWin + 1) }

\* Values of a draw of Math.random() or of an injected seed: the ends of
\* [0, 1), the middle, where the direction changes, and one step of the model
\* above it, and the quarters.
ServeDraws == {0, 250, 500, 501, 750, 999}

\* generateServeVelocity: with a seed, which the draws of Math.random() do not
\* reach, and without one (seed = -1), over the pairs of draws.
ServeCalls ==
    { [fn |-> "generateServeVelocity", seed |-> sd, r1 |-> 0, r2 |-> 0]
      : sd \in ServeDraws }
    \cup
    { [fn |-> "generateServeVelocity", seed |-> -1, r1 |-> r1, r2 |-> r2]
      : r1 \in ServeDraws, r2 \in ServeDraws }

\* createInitialState takes no argument.
InitialStateCalls == { [fn |-> "createInitialState"] }

\* Coordinates: a letter of either case in or just past the labels, or a
\* digit, followed by a number in or around the labels; and the short ones.
TipSizes == {10, 100, 50}

CoordLetters ==
    {UpperCaseLetters[i] : i \in 1..13} \cup {LowerCaseLetters[i] : i \in 1..13}
        \cup {"1"}

CoordNumbers ==
    {tip10colLabels[i] : i \in 1..12}
        \cup {<<"0">>, <<"1", "3">>, <<"0", "1">>, <<"A">>}

ParseCalls ==
    { [fn |-> "parseCoordToGridPosition", coord |-> c, tipSize |-> s] :
        c \in {<<l>> \o n : l \in CoordLetters, n \in CoordNumbers}
                 \cup {<<>>, <<"A">>, <<"1">>},
        s \in TipSizes }

GridCalls ==
    { [fn |-> "gridPositionToCoord", row |-> r, col |-> c, tipSize |-> s] :
        r \in -1..rows, c \in -1..cols, s \in TipSizes }

Calls ==
    PredictGridCalls \cup PredictFarCalls \cup AITargetCalls \cup AIMoveCalls
        \cup ClampCalls \cup PlayerMoveCalls \cup WallCalls \cup ScoreCalls
        \cup WinnerCalls \cup InitialStateCalls \cup ServeCalls
        \cup ParseCalls \cup GridCalls

InitCalls ==
    /\ phase = createInitialState.phase
    /\ countdown = createInitialState.countdown
    /\ player = createInitialState.player
    /\ ai = createInitialState.ai
    /\ ball = createInitialState.ball
    /\ score = createInitialState.score
    /\ last = NoEvent
    /\ args \in Calls
    /\ ret = <<>>
    /\ tips = <<>>

\* The frame of a call: everything but ret is left alone.
Returns(value) ==
    /\ ret = <<>>
    /\ ret' = <<value>>
    /\ UNCHANGED <<phase, countdown, player, ai, ball, score, last, args, tips>>

CallPredictBallY ==
    /\ args.fn = "predictBallY"
    /\ Returns(predictBallY(args.ball, args.targetX))

CallCalculateAITarget ==
    /\ args.fn = "calculateAITarget"
    /\ Returns(calculateAITarget(args.ball, args.currentAiY, args.r))

CallMoveAIPaddle ==
    /\ args.fn = "moveAIPaddle"
    /\ Returns(moveAIPaddle(args.currentY, args.targetY, args.frameSpeed))

CallClampPaddleY ==
    /\ args.fn = "clampPaddleY"
    /\ Returns(clampPaddleY(args.y))

CallMovePlayerPaddle ==
    /\ args.fn = "movePlayerPaddle"
    /\ Returns(movePlayerPaddle(args.currentY, args.in, args.frameSpeed))

CallCheckWallCollision ==
    /\ args.fn = "checkWallCollision"
    /\ Returns(checkWallCollision(args.ball))

CallCheckScore ==
    /\ args.fn = "checkScore"
    /\ Returns(checkScore(args.ball))

CallCheckWinner ==
    /\ args.fn = "checkWinner"
    /\ Returns(checkWinner(args.score))

\* createInitialState is called once and once again: ret keeps both states.
CallCreateInitialState ==
    /\ args.fn = "createInitialState"
    /\ Len(ret) < 2
    /\ ret' = Append(ret, createInitialState)
    /\ UNCHANGED <<phase, countdown, player, ai, ball, score, last, args, tips>>

CallGenerateServeVelocity ==
    /\ args.fn = "generateServeVelocity"
    /\ Returns(generateServeVelocity(args.seed, args.r1, args.r2))

CallParseCoordToGridPosition ==
    /\ args.fn = "parseCoordToGridPosition"
    /\ Returns(parseCoordToGridPosition(args.coord, args.tipSize))

CallGridPositionToCoord ==
    /\ args.fn = "gridPositionToCoord"
    /\ Returns(gridPositionToCoord(args.row, args.col, args.tipSize))

\* The round trips: the position parsed is turned into a coordinate again,
\* the coordinate generated is parsed again.
RegenerateCoord ==
    /\ args.fn = "parseCoordToGridPosition"
    /\ Len(ret) = 1
    /\ ret[1] # Null
    /\ ret' = Append(ret, gridPositionToCoord(ret[1].row, ret[1].col,
                                              args.tipSize))
    /\ UNCHANGED <<phase, countdown, player, ai, ball, score, last, args, tips>>

ReparseCoord ==
    /\ args.fn = "gridPositionToCoord"
    /\ Len(ret) = 1
    /\ ret[1] # Null
    /\ ret' = Append(ret, parseCoordToGridPosition(ret[1].coord, args.tipSize))
    /\ UNCHANGED <<phase, countdown, player, ai, ball, score, last, args, tips>>

NextCalls ==
    \/ CallPredictBallY
    \/ CallCalculateAITarget
    \/ CallMoveAIPaddle
    \/ CallClampPaddleY
    \/ CallMovePlayerPaddle
    \/ CallCheckWallCollision
    \/ CallCheckScore
    \/ CallCheckWinner
    \/ CallCreateInitialState
    \/ CallGenerateServeVelocity
    \/ CallParseCoordToGridPosition
    \/ CallGridPositionToCoord
    \/ RegenerateCoord
    \/ ReparseCoord

SpecCalls == InitCalls /\ [][NextCalls]_vars

----------------------------------------------------------------------------
(* The tips array under addTip and deleteTip calls, starting empty: each    *)
(* call is made on the array the call before it returned.                   *)

\* The longest array a call is made on.
MaxTips == 3

\* A1 in both cases of its letter, and one other cell.
TipCoords == {<<"A", "1">>, <<"a", "1">>, <<"B", "2">>}

BoxSizes == {10, 100}

Ingredients == {"Musk", "Rose"}

NewTips ==
    { [coord |-> c, tipSize |-> s, ingredient |-> g] :
        c \in TipCoords, s \in BoxSizes, g \in Ingredients }

InitTips ==
    /\ phase = createInitialState.phase
    /\ countdown = createInitialState.countdown
    /\ player = createInitialState.player
    /\ ai = createInitialState.ai
    /\ ball = createInitialState.ball
    /\ score = createInitialState.score
    /\ last = NoEvent
    /\ args = [fn |-> "none"]
    /\ ret = <<>>
    /\ tips = <<>>

CallAddTip(newTip, replace) ==
    /\ \/ Len(tips) < MaxTips
       \/ findExistingTip(tips, newTip.coord, newTip.tipSize) # Null
    /\ args' = [fn |-> "addTip", tips |-> tips, newTip |-> newTip,
                replace |-> replace]
    /\ ret' = <<addTip(tips, newTip, replace)>>
    /\ tips' = ret'[1].tips
    /\ UNCHANGED <<phase, countdown, player, ai, ball, score, last>>

CallDeleteTip(coord, tipSize) ==
    /\ args' = [fn |-> "deleteTip", tips |-> tips, coord |-> coord,
                tipSize |-> tipSize]
    /\ ret' = <<deleteTip(tips, coord, tipSize)>>
    /\ tips' = ret'[1]
    /\ UNCHANGED <<phase, countdown, player, ai, ball, score, last>>

NextTips ==
    \/ \E newTip \in NewTips, replace \in BOOLEAN : CallAddTip(newTip, replace)
    \/ \E coord \in TipCoords, tipSize \in BoxSizes :
          CallDeleteTip(coord, tipSize)

SpecTips == InitTips /\ [][NextTips]_vars

----------------------------------------------------------------------------
(* Properties of the match loop, checked under Spec.                        *)

\* speed is the magnitude of (vx, vy), within the 2/100 the fixed-point
\* trigonometry can lose.
SpeedIsMagnitude(vx, vy, speed) ==
    /\ (speed - 2) * (speed - 2) <= vx * vx + vy * vy
    /\ vx * vx + vy * vy <= (speed + 2) * (speed + 2)

\* (vx, vy) is an output of the Serve Generator: horizontal motion, magnitude
\* speedInitial, angle within 0.4 radian of the horizontal.
IsServeVelocity(vx, vy) ==
    /\ vx # 0
    /\ SpeedIsMagnitude(vx, vy, ballSpeedInitial)
    /\ Abs(vy) <= Quot(ballSpeedInitial * Sin(400), 1000) + 1

\* C1: a frame on a Finished state leaves the phase Finished and the ball,
\* both paddle positions and the score as they were, frame after frame.
C1_FinishedIsFrozen ==
    [][phase = "finished" =>
         /\ phase' = "finished"
         /\ ball' = ball
         /\ player'.y = player.y
         /\ ai'.y = ai.y
         /\ score' = score]_vars

\* A frame has been advanced on a Finished state.
C1_Witness == phase = "finished" /\ last.op = "finished"

\* C2: a match starts in Countdown and every frame keeps the phase or moves
\* it one step along Countdown -> Playing -> Finished: never back, never from
\* Countdown straight to Finished, never out of Finished.
C2_PhaseOrder ==
    /\ phase = "countdown"
    /\ [][\/ phase' = phase
          \/ phase = "countdown" /\ phase' = "playing"
          \/ phase = "playing" /\ phase' = "finished"]_vars

\* The frame that ends the match: all three phases have been passed through.
C2_Witness == phase = "finished" /\ last.op = "playing" /\ countdown <= 0

\* C3: both paddles stay within [0, courtHeight - paddleHeight].
C3_PaddlesInCourt ==
    /\ 0 <= player.y /\ player.y <= height - paddleHeight
    /\ 0 <= ai.y /\ ai.y <= height - paddleHeight

\* A playing frame has left the player's paddle on the lower bound and the
\* AI's on the upper one.
C3_Witness ==
    /\ last.op = "playing"
    /\ player.y = height - paddleHeight
    /\ ai.y = 0

C5_SpeedIsVelocityMagnitude ==
    (ball.vx # 0 \/ ball.vy # 0) => SpeedIsMagnitude(ball.vx, ball.vy, ball.speed)

C7_CountdownToPlaying ==
    /\ [](phase = "countdown" =>
            /\ countdown > 0
            /\ ball.x = centerX /\ ball.y = centerY
            /\ ball.vx = 0 /\ ball.vy = 0)
    /\ [][phase = "countdown" =>
            /\ (phase' = "playing") <=> (countdown' <= 0)
            /\ phase' \in {"countdown", "playing"}
            /\ player' = player
            /\ ai'.y = ai.y
            /\ ball'.x = ball.x /\ ball'.y = ball.y
            /\ phase' = "playing" =>
                  /\ IsServeVelocity(ball'.vx, ball'.vy)
                  /\ ball'.speed = ballSpeedInitial]_vars

\* The frame that ended the countdown has served.
C7_Witness == last.op = "serve" /\ phase = "playing" /\ ball.vx # 0

\* After a playing frame the ball is within [0, courtHeight - ballSize].
BallInCourt == 0 <= ball.y /\ ball.y <= height - ballSize

\* On a wall, the ball's vertical velocity points into the court.
InwardOnWall ==
    /\ ball.y = 0 => ball.vy >= 0
    /\ ball.y = height - ballSize => ball.vy <= 0

\* C8 as stated: after every playing frame the ball is in the court and, on
\* a wall, moves into the court.
C8_InCourtAndInward ==
    last.op = "playing" => (BallInCourt /\ InwardOnWall)

\* C8 amended: after every playing frame the ball is in the court and, on a
\* wall, moves into the court unless a paddle hit of that frame has set its
\* velocity.
C8_InCourtAndInwardUnlessHit ==
    last.op = "playing" => (BallInCourt /\ (last.hit = "null" => InwardOnWall))

\* A wall has turned the ball back in a frame without a paddle hit.
C8_Witness ==
    /\ last.op = "playing" /\ last.wall /\ last.hit = "null"
    /\ ball.y = 0 /\ ball.vy > 0

ScoresInRange ==
    /\ score.player \in 0..pointsToWin
    /\ score.ai \in 0..pointsToWin
    /\ ~(score.player = pointsToWin /\ score.ai = pointsToWin)

FinishedAtPointsToWin ==
    phase = "finished" <=> (score.player = pointsToWin \/ score.ai = pointsToWin)

ScoreSumStep ==
    /\ score'.player + score'.ai >= score.player + score.ai
    /\ score'.player + score'.ai <= score.player + score.ai + 1

\* C27: in every reachable match state the scores are integers with
\* 0 <= score.player <= pointsToWin and 0 <= score.ai <= pointsToWin, never
\* both equal to pointsToWin; the phase is Finished exactly when one of the
\* two scores equals pointsToWin; and score.player + score.ai never decreases
\* and grows by at most 1 per tick.
C27_Scores ==
    /\ [](ScoresInRange /\ FinishedAtPointsToWin)
    /\ [][ScoreSumStep]_vars

\* The AI has just scored its last point of a match the player scored in.
C27_Witness ==
    /\ phase = "finished"
    /\ last.scored = "ai"
    /\ score.ai = pointsToWin
    /\ score.player > 0

\* The ball has passed a paddle's span and moves on to the edge behind it.
PastPaddle ==
    /\ phase = "playing"
    /\ \/ ball.vx < 0 /\ ball.x + ballSize < paddleMargin
       \/ ball.vx > 0 /\ ball.x > width - paddleMargin

HitOrPoint == last.hit # "null" \/ last.scored # "null"

----------------------------------------------------------------------------
(* Properties of checkPaddleCollision, checked under SpecPaddle.            *)

\* C9: a hit is reported exactly when the ball's x is in the paddle's span on
\* its side, vx points toward the paddle, and the ball's vertical centre is
\* within the paddle's height.
C9_HitExactlyWhenEligible ==
    ret # <<>> =>
       LET b      == args.ball
           centre == b.y + ballSize \div 2
           inSpan == IF args.isLeftPaddle
                     THEN args.paddleX <= b.x /\ b.x <= args.paddleX + paddleWidth
                     ELSE args.paddleX - ballSize <= b.x /\ b.x <= args.paddleX
           toward == IF args.isLeftPaddle THEN b.vx < 0 ELSE b.vx > 0
           overlap == args.paddleY <= centre /\ centre <= args.paddleY + paddleHeight
       IN  ret[1].hit <=> (inSpan /\ toward /\ overlap)

\* A hit has been reported on the right paddle with the ball's centre on the
\* paddle's bottom edge and its x on the span's near end.
C9_Witness ==
    /\ ret # <<>> /\ ret[1].hit /\ ~args.isLeftPaddle
    /\ args.ball.x = args.paddleX - ballSize
    /\ args.ball.y + ballSize \div 2 = args.paddleY + paddleHeight

\* C10: a hit sets ball.speed to min(speedMax, speed + speedIncrement), which
\* is >= the speed before and <= speedMax.
C10_HitSpeed ==
    (ret # <<>> /\ ret[1].hit) =>
       /\ ret[1].newBall.speed =
             IF args.ball.speed + ballSpeedIncrement <= ballSpeedMax
             THEN args.ball.speed + ballSpeedIncrement ELSE ballSpeedMax
       /\ ret[1].newBall.speed >= args.ball.speed
       /\ ret[1].newBall.speed <= ballSpeedMax

\* A hit at one step under the cap's threshold has been capped.
C10_Witness ==
    /\ ret # <<>> /\ ret[1].hit
    /\ args.ball.speed = ballSpeedMax - ballSpeedIncrement + 1
    /\ ret[1].newBall.speed = ballSpeedMax

----------------------------------------------------------------------------
(* Properties of a hit and the frames after it, checked under               *)
(* SpecPaddleTicks.                                                         *)

\* C11: a hit returns the ball moving away from the paddle that was hit, on
\* that paddle's outer edge and at the y it had; in the frames that follow,
\* the same paddle reports no hit on that ball.
C11_HitSendsBallAway ==
    (ret # <<>> /\ ret[1].hit) =>
       /\ IF args.isLeftPaddle
          THEN /\ ret[1].newBall.vx > 0
               /\ ret[1].newBall.x = args.paddleX + paddleWidth
          ELSE /\ ret[1].newBall.vx < 0
               /\ ret[1].newBall.x = args.paddleX - ballSize
       /\ ret[1].newBall.y = args.ball.y
       /\ \A i \in 2..Len(ret) : ~ret[i].hit

\* The left paddle has hit the ball and been checked again after a frame in
\* which the ball has not moved: it is still on the paddle's outer edge.
C11_Witness ==
    /\ Len(ret) = 2 /\ ret[1].hit /\ args.isLeftPaddle
    /\ ret[2].newBall.x = args.paddleX + paddleWidth
    /\ ret[2].newBall.y = args.ball.y

----------------------------------------------------------------------------
(* Properties of the pure functions, checked under SpecCalls.               *)

\* The value predictBallY extrapolates before folding,
\* ball.y + ball.vy * timeToReach.
RawY(b, targetX) == b.y + Quot(b.vy * (targetX - b.x), b.vx)

\* The ball moves toward targetX: vx # 0 and timeToReach >= 0.
MovesToward(b, targetX) ==
    b.vx # 0 /\ Sign(targetX - b.x) * Sign(b.vx) >= 0

InRange(y) == 0 <= y /\ y <= height - ballSize

\* C12 as stated: for a ball moving toward targetX, predictBallY returns a
\* value within [0, courtHeight - ballSize] whatever the overshoot.
C12_PredictInRange ==
    (ret # <<>> /\ args.fn = "predictBallY"
        /\ MovesToward(args.ball, args.targetX)) => InRange(ret[1])

\* C12 amended: the value is within the range whenever the extrapolated y is
\* no further than maxIterations double court heights, 10 * 2 * 290 = 5800,
\* from 0.
C12_PredictInRangeWithinCap ==
    (ret # <<>> /\ args.fn = "predictBallY"
        /\ MovesToward(args.ball, args.targetX)
        /\ Abs(RawY(args.ball, args.targetX))
              <= maxIterations * 2 * (height - ballSize)) => InRange(ret[1])

\* An overshoot of exactly 5800 has been folded back, in ten passes.
C12_Witness ==
    /\ ret # <<>> /\ args.fn = "predictBallY"
    /\ MovesToward(args.ball, args.targetX)
    /\ RawY(args.ball, args.targetX) = maxIterations * 2 * (height - ballSize)
    /\ InRange(ret[1])

\* C13: predictBallY returns ball.y as it is when vx = 0 and when targetX is
\* behind the ball's direction of travel; for a ball moving toward targetX
\* whose extrapolated y is already within [0, courtHeight - ballSize] it
\* returns that extrapolated y.
C13_PredictUnchanged ==
    (ret # <<>> /\ args.fn = "predictBallY") =>
       LET b == args.ball
       IN  /\ b.vx = 0 => ret[1] = b.y
           /\ (b.vx # 0 /\ ~MovesToward(b, args.targetX)) => ret[1] = b.y
           /\ (MovesToward(b, args.targetX) /\ InRange(RawY(b, args.targetX)))
                 => ret[1] = RawY(b, args.targetX)

\* A ball above the court moving away from targetX has been returned its y.
C13_Witness ==
    /\ ret # <<>> /\ args.fn = "predictBallY"
    /\ args.ball.vx # 0 /\ args.ball.vy # 0
    /\ ~MovesToward(args.ball, args.targetX)
    /\ args.ball.y < 0
    /\ ret[1] = args.ball.y

\* C14: for a ball not moving toward the AI's side calculateAITarget returns
\* the idle position, courtHeight/2 - paddleHeight/2; otherwise it returns
\* predictBallY(ball, aiPaddleX) - paddleHeight/2 + jitter with
\* -15 <= jitter < 15; the AI paddle's current position changes nothing.
C14_AITarget ==
    (ret # <<>> /\ args.fn = "calculateAITarget") =>
       LET b      == args.ball
           jitter == ret[1] - predictBallY(b, aiPaddleX) + paddleHeight \div 2
       IN  /\ b.vx <= 0 => ret[1] = height \div 2 - paddleHeight \div 2
           /\ b.vx > 0 => (-15000 <= jitter /\ jitter < 15000)
           /\ \A cy \in PaddleYs : calculateAITarget(b, cy, args.r) = ret[1]

\* The target of a ball that will bounce before it reaches the AI, with the
\* lowest draw of the jitter: 15 above the paddle-centred prediction.
C14_Witness ==
    /\ ret # <<>> /\ args.fn = "calculateAITarget"
    /\ args.ball.vx > 0 /\ args.r = 0
    /\ predictBallY(args.ball, aiPaddleX) # args.ball.y
    /\ ret[1] = predictBallY(args.ball, aiPaddleX) - paddleHeight \div 2 - 15000

\* One step of the AI paddle in a frame, 0.9 * paddleSpeed * frameScale.
AIStep(frameSpeed) == (9 * paddleSpeed * frameSpeed) \div 10

Clamped(y) ==
    IF y < 0 THEN 0
    ELSE IF y > height - paddleHeight THEN height - paddleHeight
    ELSE y

C16_AIMoveReachesTarget ==
    (ret # <<>> /\ args.fn = "moveAIPaddle") =>
       LET cy   == args.currentY
           diff == args.targetY - cy
       IN  /\ (args.targetY = Clamped(args.targetY)
                  /\ Abs(diff) <= AIStep(args.frameSpeed))
                 => Abs(ret[1] - args.targetY) <= 500
           /\ (cy = Clamped(cy) /\ diff >= 0) => ret[1] <= args.targetY
           /\ (cy = Clamped(cy) /\ diff <= 0) => ret[1] >= args.targetY

\* C17: clampPaddleY, movePlayerPaddle and moveAIPaddle return a position
\* within [0, courtHeight - paddleHeight] for every input, a current
\* position outside that range included, and clampPaddleY returns a value
\* that is in the range as it is.
C17_AlwaysClamped ==
    (ret # <<>> /\ args.fn \in {"clampPaddleY", "movePlayerPaddle", "moveAIPaddle"})
       => /\ ret[1] = Clamped(ret[1])
          /\ (args.fn = "clampPaddleY" /\ args.y = Clamped(args.y))
                => ret[1] = args.y

\* C18: from a position within [0, courtHeight - paddleHeight],
\* movePlayerPaddle returns clamp(currentY + d * paddleSpeed * frameScale)
\* with d = (down ? 1 : 0) - (up ? 1 : 0): currentY itself when both or
\* neither of up and down are pressed.
C18_PlayerMove ==
    (ret # <<>> /\ args.fn = "movePlayerPaddle"
        /\ args.currentY = Clamped(args.currentY)) =>
       LET d == (IF args.in.down THEN 1 ELSE 0) - (IF args.in.up THEN 1 ELSE 0)
       IN  /\ ret[1] = Clamped(args.currentY + d * paddleSpeed * args.frameSpeed)
           /\ d = 0 => ret[1] = args.currentY

\* C19: checkWallCollision returns collided with newY = 0 and newVy = |vy|
\* for a ball at y <= 0, collided with newY = courtHeight - ballSize and
\* newVy = -|vy| for a ball at y >= courtHeight - ballSize, and otherwise
\* not collided with y and vy as they are; newY is always in the court.
C19_WallCollision ==
    (ret # <<>> /\ args.fn = "checkWallCollision") =>
       LET b == args.ball
       IN  /\ b.y <= 0 =>
                 ret[1] = [collided |-> TRUE, newY |-> 0,
                           newVy |-> IF b.vy < 0 THEN -b.vy ELSE b.vy]
           /\ b.y >= height - ballSize =>
                 ret[1] = [collided |-> TRUE, newY |-> height - ballSize,
                           newVy |-> IF b.vy < 0 THEN b.vy ELSE -b.vy]
           /\ (0 < b.y /\ b.y < height - ballSize) =>
                 ret[1] = [collided |-> FALSE, newY |-> b.y, newVy |-> b.vy]
           /\ InRange(ret[1].newY)

\* A ball exactly on the bottom wall and moving down has been turned back.
C19_Witness ==
    /\ ret # <<>> /\ args.fn = "checkWallCollision"
    /\ args.ball.y = height - ballSize /\ args.ball.vy > 0
    /\ ret[1].collided /\ ret[1].newVy = -args.ball.vy

\* C20: checkScore returns 'ai' exactly for x < 0, 'player' exactly for
\* x > courtWidth, and no score otherwise, x = 0 and x = courtWidth included.
C20_Score ==
    (ret # <<>> /\ args.fn = "checkScore") =>
       /\ ret[1] \in {"ai", "player", "null"}
       /\ ret[1] = "ai" <=> args.ball.x < 0
       /\ ret[1] = "player" <=> args.ball.x > width
       /\ args.ball.x \in {0, width} => ret[1] = "null"

\* A ball exactly on the right edge has not scored.
C20_Witness ==
    /\ ret # <<>> /\ args.fn = "checkScore"
    /\ args.ball.x = width /\ args.ball.vx > 0
    /\ ret[1] = "null"

\* C21: checkWinner returns 'player' when score.player >= pointsToWin,
\* otherwise 'ai' when score.ai >= pointsToWin, otherwise no winner: a winner
\* is reported exactly when a score has reached pointsToWin, and is a side
\* whose score has.
C21_Winner ==
    (ret # <<>> /\ args.fn = "checkWinner") =>
       LET p == args.score.player
           a == args.score.ai
       IN  /\ p >= pointsToWin => ret[1] = "player"
           /\ (p < pointsToWin /\ a >= pointsToWin) => ret[1] = "ai"
           /\ (p < pointsToWin /\ a < pointsToWin) => ret[1] = "null"
           /\ ret[1] # "null" <=> (p >= pointsToWin \/ a >= pointsToWin)
           /\ ret[1] = "player" => p >= pointsToWin
           /\ ret[1] = "ai" => a >= pointsToWin

\* Both scores have reached pointsToWin and the player is the winner.
C21_Witness ==
    /\ ret # <<>> /\ args.fn = "checkWinner"
    /\ args.score.player = pointsToWin /\ args.score.ai = pointsToWin
    /\ ret[1] = "player"

\* C22: every call of createInitialState returns phase Countdown with the
\* countdown at 3 seconds, the ball at (245, 145) with velocity (0, 0) and
\* speed speedInitial, both paddles at y = 115, the score 0-0 and both inputs
\* false.
C22_InitialState ==
    (ret # <<>> /\ args.fn = "createInitialState") =>
       \A i \in 1..Len(ret) :
          /\ ret[i].phase = "countdown"
          /\ ret[i].countdown = 3000
          /\ ret[i].ball.x = 245000 /\ ret[i].ball.y = 145000
          /\ ret[i].ball.vx = 0 /\ ret[i].ball.vy = 0
          /\ ret[i].ball.speed = ballSpeedInitial
          /\ ret[i].player.y = 115000 /\ ret[i].ai.y = 115000
          /\ ret[i].score = [player |-> 0, ai |-> 0]
          /\ ret[i].input = [up |-> FALSE, down |-> FALSE]

\* createInitialState has been called a second time.
C22_Witness ==
    /\ args.fn = "createInitialState" /\ Len(ret) = 2
    /\ ret[2].phase = "countdown" /\ ret[2].ball.x = 245000

\* C23: with the injected randomness source fixed, a function returns the
\* same result whatever the global generator draws: the serve of a given
\* seed, and the AI's target, whose jitter is to come from that source.
C23_InjectedSourceOnly ==
    ret # <<>> =>
       /\ (args.fn = "generateServeVelocity" /\ args.seed # -1) =>
              \A q1 \in Draws, q2 \in Draws :
                 generateServeVelocity(args.seed, q1, q2) = ret[1]
       /\ args.fn = "calculateAITarget" =>
              \A q \in Draws :
                 calculateAITarget(args.ball, args.currentAiY, q) = ret[1]

\* Every seed a source can inject, 0 <= seed < 1.
Seeds == 0..999

\* C24: a serve has vx # 0, the magnitude speedInitial and
\* |vy| <= speedInitial * sin(0.4); and each direction can occur with every
\* angle, also through the injected source: for a seeded serve there is a
\* seed that serves in the same direction with vy of the opposite sign.
C24_Serve ==
    (ret # <<>> /\ args.fn = "generateServeVelocity") =>
       /\ IsServeVelocity(ret[1].vx, ret[1].vy)
       /\ (args.seed # -1 /\ ret[1].vy # 0) =>
              \E sd \in Seeds :
                 LET v == generateServeVelocity(sd, 0, 0)
                 IN  Sign(v.vx) = Sign(ret[1].vx) /\ Sign(v.vy) = -Sign(ret[1].vy)

\* The label conventions stated on their own: the letter of an index and the
\* decimal numeral of a number.
Digits == <<"0", "1", "2", "3", "4", "5", "6", "7", "8", "9">>

Numeral(n) ==
    IF n < 10 THEN <<Digits[n + 1]>>
    ELSE <<Digits[(n \div 10) + 1], Digits[(n % 10) + 1]>>

LabelOf(row, col, tipSize) ==
    IF tipSize = 10
    THEN <<UpperCaseLetters[row + 1]>> \o Numeral(col + 1)
    ELSE <<UpperCaseLetters[col + 1]>> \o Numeral(row + 1)

UpperCased(coord) ==
    IF coord = <<>> THEN coord ELSE <<toUpperCase(coord[1])>> \o Tail(coord)

\* C25: for tip sizes 10 and 100 and every grid position (row 0..7,
\* col 0..11) gridPositionToCoord returns the label of the box's convention
\* (10 uL: row letter A-H then column number 1-12; 100 uL: column letter A-L
\* then row number 1-8) and parsing that label gives the position back; a
\* coordinate that is such a label once its letter is upper-cased parses to
\* the label's position, and generating the coordinate of that position gives
\* the upper-cased coordinate back (the coordinate itself when it is upper
\* case); every other position, coordinate or tip size yields null.
C25_CoordRoundTrip ==
    /\ (args.fn = "gridPositionToCoord" /\ Len(ret) >= 1) =>
          IF /\ args.row \in 0..7
             /\ args.col \in 0..11
             /\ args.tipSize \in {10, 100}
          THEN /\ ret[1] = [coord |-> LabelOf(args.row, args.col, args.tipSize)]
               /\ Len(ret) = 2 =>
                     ret[2] = [row |-> args.row, col |-> args.col]
          ELSE ret[1] = Null
    /\ (args.fn = "parseCoordToGridPosition" /\ Len(ret) >= 1) =>
          LET cells == { rc \in (0..7) \X (0..11) :
                           /\ args.tipSize \in {10, 100}
                           /\ UpperCased(args.coord)
                                = LabelOf(rc[1], rc[2], args.tipSize) }
          IN  IF cells # {}
              THEN /\ \A rc \in cells : ret[1] = [row |-> rc[1], col |-> rc[2]]
                   /\ Len(ret) = 2 =>
                         ret[2] = [coord |-> UpperCased(args.coord)]
              ELSE ret[1] = Null

\* The last cell of the 100 uL box is L8, and L8 parses to it again.
C25_Witness ==
    /\ args.fn = "gridPositionToCoord"
    /\ args.tipSize = 100
    /\ args.row = 7
    /\ args.col = 11
    /\ Len(ret) = 2
    /\ ret[1] = [coord |-> <<"L", "8">>]
    /\ ret[2] = [row |-> 7, col |-> 11]

----------------------------------------------------------------------------
(* Properties of the tips array, checked under SpecTips.                    *)

SameSlot(t, newTip) == t.coord = newTip.coord /\ t.tipSize = newTip.tipSize

\* C26: addTip on a (coord, tipSize) already present returns the error
\* 'Coordinate already occupied' and the tips array as it was when replace is
\* false; when replace is true it returns the array without the existing tip
\* and with the new tip appended, replaced = the old tip, error = null, the
\* length unchanged; on a free (coord, tipSize), the same coord in the other
\* box included, it appends the tip with replaced = null and error = null.
C26_AddTip ==
    (args.fn = "addTip") =>
       LET ts      == args.tips
           newTip  == args.newTip
           present == {i \in 1..Len(ts) : SameSlot(ts[i], newTip)}
       IN  IF present # {} /\ ~args.replace
           THEN /\ ret[1].error = [message |-> "Coordinate already occupied"]
                /\ ret[1].tips = ts
                /\ ret[1].replaced = Null
           ELSE IF present # {}
           THEN /\ ret[1].error = Null
                /\ Len(ret[1].tips) = Len(ts)
                /\ \A i \in present :
                      /\ ret[1].replaced = ts[i]
                      /\ ret[1].tips
                           = SubSeq(ts, 1, i - 1) \o SubSeq(ts, i + 1, Len(ts))
                               \o <<newTip>>
           ELSE /\ ret[1].error = Null
                /\ ret[1].replaced = Null
                /\ ret[1].tips = Append(ts, newTip)

\* A tip replaces the first of two stored tips, and before that A1 of the
\* 100 uL box was added next to A1 of the 10 uL box.
C26_Witness ==
    /\ args.fn = "addTip"
    /\ args.replace
    /\ Len(args.tips) = 2
    /\ SameSlot(args.tips[1], args.newTip)
    /\ args.tips[1].ingredient # args.newTip.ingredient
    /\ args.tips[1].coord = args.tips[2].coord
    /\ args.tips[1].tipSize # args.tips[2].tipSize
    /\ ret[1].replaced = args.tips[1]
    /\ ret[1].tips = <<args.tips[2], args.newTip>>

\* C30: starting from an empty tips array, after any sequence of addTip calls
\* (with either replace flag, on coordinates parseCoordToGridPosition
\* accepts, in either letter case) and deleteTip calls, no two stored tips of
\* the same tipSize have the same parseCoordToGridPosition result.
C30_OneTipPerCell ==
    \A i, j \in 1..Len(tips) :
       (i # j /\ tips[i].tipSize = tips[j].tipSize) =>
          parseCoordToGridPosition(tips[i].coord, tips[i].tipSize)
             # parseCoordToGridPosition(tips[j].coord, tips[j].tipSize)

----------------------------------------------------------------------------
(* The fold of predictBallY against the exact reflection, under SpecCalls.  *)

\* The elastic reflection of y between the walls 0 and height - ballSize: the
\* triangle wave of period 2 * (height - ballSize).
TriangleWave(y) ==
    LET period == 2 * (height - ballSize)
        m      == y % period
    IN  IF m <= height - ballSize THEN m ELSE period - m

\* C29: whenever the fold of predictBallY ends with a value between the
\* walls, which it does for every extrapolated y with
\* |y| <= 10 * 2 * (courtHeight - ballSize) = 5800, the value returned is the
\* triangle-wave reflection of the extrapolated y between 0 and
\* courtHeight - ballSize (period 580); and the loop makes at most 10 passes.
C29_FoldIsReflection ==
    (ret # <<>> /\ args.fn = "predictBallY"
        /\ MovesToward(args.ball, args.targetX)) =>
       LET rawY == RawY(args.ball, args.targetX)
       IN  /\ InRange(ret[1]) => ret[1] = TriangleWave(rawY)
           /\ Abs(rawY) <= 10 * 2 * (height - ballSize) => InRange(ret[1])
           /\ FoldIterations(rawY, 0) <= 10

\* An extrapolated y of 870.001, one thousandth past three court heights, is
\* folded in two passes to 289.999.
C29_Witness ==
    /\ ret # <<>> /\ args.fn = "predictBallY"
    /\ MovesToward(args.ball, args.targetX)
    /\ RawY(args.ball, args.targetX) = 3 * (height - ballSize) + 1
    /\ FoldIterations(RawY(args.ball, args.targetX), 0) = 2
    /\ ret[1] = height - ballSize - 1

====
